---- MODULE Spec2Model ----
(***************************************************************************)
(* State-machine model of the scrapelight-backend search core:             *)
(*   - the image_features / product / product_images tables,               *)
(*   - DatabaseManager (ml_worker/services/database_service.py),           *)
(*   - SearchService (ml_worker/services/search_service.py),               *)
(*   - the picture_search and spec_search tasks and their endpoints,       *)
(*   - the JWT helpers of shared/auth.py and the auth router.              *)
(* Text values are sequences of one-character strings, so that splitting,  *)
(* pattern matching and case folding are computed, not assumed.            *)
(***************************************************************************)
EXTENDS Integers, Sequences, FiniteSets, TLC

(***************************************************************************)
(* Text helpers                                                            *)
(***************************************************************************)

\* SQL NULL / Python None for an optional text value.
Null == <<"<null>">>

IsNull(v) == v = Null

UpperLetters ==
    {"A","B","C","D","E","F","G","H","I","J","K","L","M",
     "N","O","P","Q","R","S","T","U","V","W","X","Y","Z"}

LowerLetters ==
    {"a","b","c","d","e","f","g","h","i","j","k","l","m",
     "n","o","p","q","r","s","t","u","v","w","x","y","z"}

Digits == {"0","1","2","3","4","5","6","7","8","9"}

\* str.strip() / str.split() whitespace.
Whitespace == {" ", "\t", "\n"}

LowerOf ==
    [c \in UpperLetters |->
        CASE c = "A" -> "a" [] c = "B" -> "b" [] c = "C" -> "c" [] c = "D" -> "d"
          [] c = "E" -> "e" [] c = "F" -> "f" [] c = "G" -> "g" [] c = "H" -> "h"
          [] c = "I" -> "i" [] c = "J" -> "j" [] c = "K" -> "k" [] c = "L" -> "l"
          [] c = "M" -> "m" [] c = "N" -> "n" [] c = "O" -> "o" [] c = "P" -> "p"
          [] c = "Q" -> "q" [] c = "R" -> "r" [] c = "S" -> "s" [] c = "T" -> "t"
          [] c = "U" -> "u" [] c = "V" -> "v" [] c = "W" -> "w" [] c = "X" -> "x"
          [] c = "Y" -> "y" [] OTHER -> "z"]

\* Case folding of one character, as ILIKE applies it.
Lower(c) == IF c \in UpperLetters THEN LowerOf[c] ELSE c

\* Position of the first occurrence of character c in s at or after i, 0 if none.
RECURSIVE IndexFrom(_, _, _)
IndexFrom(s, c, i) ==
    IF i > Len(s) THEN 0
    ELSE IF s[i] = c THEN i
    ELSE IndexFrom(s, c, i + 1)

Contains(s, c) == IndexFrom(s, c, 1) > 0

\* str.split(sep) for a one-character separator: all pieces, empty ones kept.
RECURSIVE SplitAll(_, _)
SplitAll(s, sep) ==
    LET k == IndexFrom(s, sep, 1)
    IN  IF k = 0 THEN <<s>>
        ELSE <<SubSeq(s, 1, k - 1)>> \o SplitAll(SubSeq(s, k + 1, Len(s)), sep)

\* The position of the last sep in s, 0 when there is none.
LastIndex(s, sep) ==
    IF \E k \in DOMAIN s : s[k] = sep
    THEN CHOOSE k \in DOMAIN s : s[k] = sep /\ \A j \in (k + 1)..Len(s) : s[j] # sep
    ELSE 0

\* str.rsplit(sep, 1): one split, at the last separator.
SplitAtLast(s, sep) ==
    LET k == LastIndex(s, sep)
    IN  IF k = 0 THEN <<s>>
        ELSE <<SubSeq(s, 1, k - 1), SubSeq(s, k + 1, Len(s))>>

\* str.split(sep, 1): at most one split, at the first separator.
SplitOnce(s, sep) ==
    LET k == IndexFrom(s, sep, 1)
    IN  IF k = 0 THEN <<s>>
        ELSE <<SubSeq(s, 1, k - 1), SubSeq(s, k + 1, Len(s))>>

\* str.strip(): leading and trailing whitespace removed.
RECURSIVE LStrip(_)
LStrip(s) ==
    IF s # <<>> /\ Head(s) \in Whitespace THEN LStrip(Tail(s)) ELSE s

RECURSIVE RStrip(_)
RStrip(s) ==
    IF s # <<>> /\ s[Len(s)] \in Whitespace
    THEN RStrip(SubSeq(s, 1, Len(s) - 1)) ELSE s

Strip(s) == RStrip(LStrip(s))

(***************************************************************************)
(* SQL ILIKE: % matches any run of characters, _ any one character, every  *)
(* other pattern character matches itself up to case.  NULL never matches. *)
(***************************************************************************)
RECURSIVE LikeMatch(_, _)
LikeMatch(pat, s) ==
    IF pat = <<>> THEN s = <<>>
    ELSE IF Head(pat) = "%"
         THEN LikeMatch(Tail(pat), s) \/ (s # <<>> /\ LikeMatch(pat, Tail(s)))
    ELSE IF Head(pat) = "_"
         THEN s # <<>> /\ LikeMatch(Tail(pat), Tail(s))
    ELSE s # <<>> /\ Lower(Head(pat)) = Lower(Head(s))
                  /\ LikeMatch(Tail(pat), Tail(s))

\* column.ilike(f"%{part}%")
ILikeContains(column, part) ==
    ~IsNull(column) /\ LikeMatch(<<"%">> \o part \o <<"%">>, column)

(***************************************************************************)
(* re.findall(r"[A-Za-z]: ?[0-9]+", s): leftmost non-overlapping matches.  *)
(***************************************************************************)
RECURSIVE DigitsEnd(_, _)
\* Last index of the run of digits that starts at i (i - 1 when there is none).
DigitsEnd(s, i) ==
    IF i <= Len(s) /\ s[i] \in Digits THEN DigitsEnd(s, i + 1) ELSE i - 1

\* End index of a match starting at i, 0 when the pattern does not match there.
DimMatchEnd(s, i) ==
    IF i + 2 <= Len(s) /\ s[i] \in (UpperLetters \cup LowerLetters) /\ s[i + 1] = ":"
    THEN LET d == IF s[i + 2] = " " THEN i + 3 ELSE i + 2
             e == DigitsEnd(s, d)
         IN  IF e >= d THEN e ELSE 0
    ELSE 0

RECURSIVE FindDimTokens(_, _)
FindDimTokens(s, i) ==
    IF i > Len(s) THEN <<>>
    ELSE LET e == DimMatchEnd(s, i)
         IN  IF e > 0 THEN <<SubSeq(s, i, e)>> \o FindDimTokens(s, e + 1)
             ELSE FindDimTokens(s, i + 1)

(***************************************************************************)
(* The catalog: the product and product_images tables.  Both are owned by  *)
(* the catalog builder and only read here.                                 *)
(***************************************************************************)

\* StoresModel.All.value
StoreAll == "all"

\* StoresModel.NovaLuce.value
StoreNovaLuce == "nova luce"

\* Stored image paths (ImageFeatures.image_path, ProductImages.local_path).
PathA1a == <<"d", "\\", "A", "_", "1", "\\", "a">>
PathA1b == <<"d", "\\", "A", "_", "1", "\\", "b">>
PathB2a == <<"d", "\\", "B", "_", "2", "\\", "a">>
PathNoSep == <<"d", "\\", "A", "1", "\\", "a">>
PathC3xa == <<"d", "\\", "C", "_", "3", "_", "x", "\\", "a">>
\* The same image stored with forward slashes, and one stored without the
\* leading directory.
PathPosix == <<"d", "/", "A", "_", "1", "/", "a">>
PathParent == <<"A", "_", "1", "\\", "a">>

\* Rows of the product table, in primary-key order.
Products ==
    << [id |-> 1, product_id |-> <<"1">>, article |-> <<"A">>,
        store |-> StoreNovaLuce,
        bulb_type |-> <<"L","E","D">>,
        dimensions |-> <<"W",":","1","0",","," ","H",":","2","0",","," ","D",":","5">>,
        url |-> <<"x","/","o","u","t","d","o","o","r">>,
        material |-> <<"M","e","t","a","l"," ","G","l","a","s","s">>],
       [id |-> 2, product_id |-> <<"2">>, article |-> <<"B">>,
        store |-> "other",
        bulb_type |-> <<"E","2","7">>,
        dimensions |-> <<"w",":","1","0",","," ","h",":","9","9">>,
        url |-> <<"x","/","o","u","t","-","d","o","o","r">>,
        material |-> <<"W","o","o","d">>],
       [id |-> 3, product_id |-> <<"3","_","x">>, article |-> <<"C">>,
        store |-> StoreNovaLuce,
        bulb_type |-> <<"L","i","D">>,
        dimensions |-> Null,
        url |-> <<"x","/","w","a","l","l">>,
        material |-> Null] >>

ProductIds == {Products[i].id : i \in DOMAIN Products}

\* image_url when no ProductImages row was found (Python None).
NoUrl == "<none>"

\* Rows of the product_images table, in primary-key order.
ProductImages ==
    << [id |-> 1, product_id |-> 1, image_url |-> "u1a", local_path |-> PathA1a],
       [id |-> 2, product_id |-> 2, image_url |-> "u2a", local_path |-> PathB2a],
       [id |-> 3, product_id |-> 2, image_url |-> "u2x", local_path |-> Null] >>

\* Product.images: the product's ProductImages rows.
ImagesOf(product) ==
    SelectSeq(ProductImages, LAMBDA r : r.product_id = product.id)

\* DatabaseManager.get_public_url_by_path: the first row with that local
\* path; when there is none the AttributeError is caught and None returned.
\* A None path compiles to "local_path IS NULL".
get_public_url_by_path(img_path) ==
    LET rows == SelectSeq(ProductImages, LAMBDA r : r.local_path = img_path)
    IN  IF rows = <<>> THEN NoUrl ELSE rows[1].image_url

\* DatabaseManager.get_product_by_product_id_and_article: <<>> for None,
\* else the one-element sequence holding the first matching product.
get_product_by_product_id_and_article(product_id, article, store) ==
    LET rows == SelectSeq(Products,
                    LAMBDA p : /\ (store # StoreAll => p.store = store)
                               /\ p.product_id = product_id
                               /\ p.article = article)
    IN  IF rows = <<>> THEN <<>> ELSE <<rows[1]>>

(***************************************************************************)
(* Attribute search: DatabaseManager.get_product_by_specifications         *)
(***************************************************************************)

\* Python truthiness of an Optional[str] argument.
Supplied(arg) == ~IsNull(arg) /\ arg # <<>>

\* The stripped, non-empty members of a sequence of pieces.
RECURSIVE NonEmptyStripped(_)
NonEmptyStripped(parts) ==
    IF parts = <<>> THEN <<>>
    ELSE (IF Strip(Head(parts)) # <<>> THEN <<Strip(Head(parts))>> ELSE <<>>)
         \o NonEmptyStripped(Tail(parts))

\* parts = re.findall(...); each part stripped, empty ones dropped.
DimensionParts(dimensions) == NonEmptyStripped(FindDimTokens(dimensions, 1))

\* product_details.split(' '); each part stripped, empty ones dropped.
DetailParts(product_details) == NonEmptyStripped(SplitAll(product_details, " "))

\* The chained query.filter(Product.dimensions.ilike(...)) calls.
DimensionsAnyFilter(p, dimensions) ==
    \E k \in DOMAIN DimensionParts(dimensions) :
        ILikeContains(p.dimensions, DimensionParts(dimensions)[k])

DimensionsFilter(p, dimensions) ==
    \A k \in DOMAIN DimensionParts(dimensions) :
        ILikeContains(p.dimensions, DimensionParts(dimensions)[k])

\* The WHERE clause the handler builds for one product row.
SpecQueryMatches(p, product_details, bulb_type, dimensions, category, store) ==
    /\ (store # StoreAll => p.store = store)
    /\ (Supplied(bulb_type) => ILikeContains(p.bulb_type, bulb_type))
    /\ (Supplied(dimensions) => DimensionsFilter(p, dimensions))
    /\ (Supplied(category) => ILikeContains(p.url, category))
    /\ (Supplied(product_details) =>
            \A k \in DOMAIN DetailParts(product_details) :
                ILikeContains(p.material, DetailParts(product_details)[k]))

\* Similarities are fixed-point numbers: SimOne stands for 1.0.
Scale == 5

SimOne == Scale * Scale

\* One result dict of the attribute search.
SpecMatch(product) ==
    LET image_path == IF ImagesOf(product) # <<>>
                      THEN ImagesOf(product)[1].local_path ELSE Null
    IN  [product_label |-> product.article \o <<"_">> \o product.product_id,
         similarity |-> SimOne,
         matching_image_path |-> image_path,
         product_id |-> product.id,
         url |-> product.url,
         article |-> product.article,
         bulb_type |-> product.bulb_type,
         dimensions |-> product.dimensions,
         image_url |-> get_public_url_by_path(image_path)]

RECURSIVE SpecMatches(_)
SpecMatches(products) ==
    IF products = <<>> THEN <<>>
    ELSE <<SpecMatch(Head(products))>> \o SpecMatches(Tail(products))

get_product_by_specifications(product_details, bulb_type, dimensions, category, store) ==
    SpecMatches(SelectSeq(Products,
        LAMBDA p : SpecQueryMatches(p, product_details, bulb_type,
                                    dimensions, category, store)))

(***************************************************************************)
(* Embeddings.  A vector is a tuple of integers; a normalized vector is    *)
(* kept in units of 1/Scale, a similarity in units of 1/(Scale*Scale).     *)
(***************************************************************************)

Dot(u, v) == u[1] * v[1] + u[2] * v[2]

\* np.linalg.norm of an integer vector (the integer part of the root).
Norm(v) == CHOOSE r \in 0..(Dot(v, v) + 1) : r * r <= Dot(v, v) /\ Dot(v, v) < (r + 1) * (r + 1)

\* One row of features / norms with norms[norms == 0] = 1.0.
NormalizeRow(v) ==
    LET n == IF Norm(v) = 0 THEN 1 ELSE Norm(v)
    IN  <<(v[1] * Scale) \div n, (v[2] * Scale) \div n>>

RECURSIVE NormalizeRows(_)
NormalizeRows(rows) ==
    IF rows = <<>> THEN <<>>
    ELSE <<NormalizeRow(Head(rows))>> \o NormalizeRows(Tail(rows))

(***************************************************************************)
(* The image_features table and DatabaseManager's feature operations.      *)
(***************************************************************************)

\* Largest number of image_features rows explored.
MaxFeatures == 2

\* Largest top_k explored.
MaxTopK == 2

\* Embeddings an ingestion may store.
FeatureVecs == {<<3, 4>>, <<4, 3>>}

\* Image paths an ingestion may store.
FeaturePaths == {PathA1a, PathA1b, PathB2a, PathNoSep}

\* ImageFeatures.product_id is a foreign key to product.id.
FeatureLabels == {1, 2}

\* Whether a row with that (product_id, image_path) exists: idx_product_image.
HasKey(table, product_id, image_path) ==
    \E i \in DOMAIN table :
        table[i].product_id = product_id /\ table[i].image_path = image_path

\* DatabaseManager.store_features.  The record is built without a primary
\* key, so Session.merge adds it as a new row and commit issues an INSERT;
\* the unique index idx_product_image rejects a second row for the key,
\* the transaction is rolled back and the error re-raised.
store_features(table, product_id, image_path, vec) ==
    IF HasKey(table, product_id, image_path)
    THEN [table |-> table, raised |-> TRUE]
    ELSE [table |-> Append(table, [id |-> Len(table) + 1,
                                   product_id |-> product_id,
                                   image_path |-> image_path,
                                   features |-> vec]),
          raised |-> FALSE]

\* A count that is not reported as 0 when the query fails.
get_feature_count_unguarded(table, dbFails) == Len(table)

\* DatabaseManager.get_feature_count: the row count, 0 when the query fails.
get_feature_count(table, dbFails) == IF dbFails THEN 0 ELSE Len(table)

EmptyFeatures == [features |-> <<>>, labels |-> <<>>, paths |-> <<>>]

\* A features blob np.frombuffer cannot read as float32 (its length is not a
\* multiple of 4), and an image_path held as bytes that are not UTF-8.
CorruptBlob == <<-1>>

UndecodablePath == <<"<bytes>">>

\* The body of the loop over the records in get_all_features.  The
\* embedding and the label are appended before the path is decoded, and an
\* exception anywhere in the body only skips the rest of the body.
RECURSIVE AppendRecords(_, _)
AppendRecords(results, acc) ==
    IF results = <<>> THEN acc
    ELSE LET record == Head(results)
             next   ==
                 IF record.features = CorruptBlob THEN acc
                 ELSE IF record.image_path = UndecodablePath
                 THEN [acc EXCEPT !.features = Append(@, record.features),
                                  !.labels = Append(@, record.product_id)]
                 ELSE [features |-> Append(acc.features, record.features),
                       labels |-> Append(acc.labels, record.product_id),
                       paths |-> Append(acc.paths, record.image_path)]
         IN  AppendRecords(Tail(results), next)

\* DatabaseManager.get_all_features: the three parallel lists; the empty
\* triple when there are no rows or when the query fails.
get_all_features(table, dbFails) ==
    IF dbFails \/ table = <<>> THEN EmptyFeatures
    ELSE AppendRecords(table, EmptyFeatures)

(***************************************************************************)
(* SearchService                                                           *)
(***************************************************************************)

\* The cache fields right after SearchService.__init__ (all None).  reads
\* counts the get_all_features calls this SearchService has made.
NoCache == [built |-> FALSE, matrix |-> <<>>, labels |-> <<>>, paths |-> <<>>,
            reads |-> 0]

\* A load that does not look at _feature_cache and reads the store again.
load_feature_cache_always(cache, table, dbFails) ==
    LET db_features == get_all_features(table, dbFails)
    IN  [built |-> TRUE,
         matrix |-> NormalizeRows(db_features.features),
         labels |-> db_features.labels,
         paths |-> db_features.paths,
         reads |-> cache.reads + 1]

\* A load that takes an empty snapshot for a missing one and reads again.
load_feature_cache_if_empty(cache, table, dbFails) ==
    IF cache.built /\ cache.matrix # <<>> THEN cache
    ELSE load_feature_cache_always(cache, table, dbFails)

\* A load that never reads the store.
load_feature_cache_never(cache, table, dbFails) == cache

\* SearchService._load_feature_cache: a no-op once _feature_cache is set.
load_feature_cache(cache, table, dbFails) ==
    IF cache.built THEN cache
    ELSE LET db_features == get_all_features(table, dbFails)
         IN  IF db_features.features = <<>>
             THEN [built |-> TRUE, matrix |-> <<>>, labels |-> <<>>, paths |-> <<>>,
                   reads |-> cache.reads + 1]
             ELSE [built |-> TRUE,
                   matrix |-> NormalizeRows(db_features.features),
                   labels |-> db_features.labels,
                   paths |-> db_features.paths,
                   reads |-> cache.reads + 1]

Min(a, b) == IF a < b THEN a ELSE b

Max(a, b) == IF a > b THEN a ELSE b

PoolFloor == 100

PoolFactor == 5

\* pool_size = min(len(similarities), max(100, top_k * 5))
PoolSize(n, top_k) == Min(n, Max(PoolFloor, top_k * PoolFactor))

\* similarities = np.dot(self._normalized_feature_matrix, q)
Similarities(matrix, q) == [i \in DOMAIN matrix |-> Dot(matrix[i], q)]

IsInjective(f) == \A i, j \in DOMAIN f : i # j => f[i] # f[j]

Range(f) == {f[i] : i \in DOMAIN f}

\* The orders that forget the [::-1] reversal (ascending similarity).
AscendingOrders(sims, k) ==
    {ord \in [1..k -> DOMAIN sims] :
        /\ IsInjective(ord)
        /\ \A i, j \in 1..k : i < j => sims[ord[i]] <= sims[ord[j]]
        /\ \A i \in 1..k : \A j \in DOMAIN sims \ Range(ord) : sims[j] <= sims[ord[i]]}

\* A partition that keeps the k lowest-scoring rows instead.
BottomIndexOrders(sims, k) ==
    {ord \in [1..k -> DOMAIN sims] :
        /\ IsInjective(ord)
        /\ \A i, j \in 1..k : i < j => sims[ord[i]] >= sims[ord[j]]
        /\ \A i \in 1..k : \A j \in DOMAIN sims \ Range(ord) : sims[j] >= sims[ord[i]]}

\* top_indices: np.argpartition keeps k highest-scoring rows, np.argsort
\* and [::-1] put them in descending order.  numpy leaves the order of rows
\* of equal similarity open, so every order consistent with that is kept.
TopIndexOrders(sims, k) ==
    {ord \in [1..k -> DOMAIN sims] :
        /\ IsInjective(ord)
        /\ \A i, j \in 1..k : i < j => sims[ord[i]] >= sims[ord[j]]
        /\ \A i \in 1..k : \A j \in DOMAIN sims \ Range(ord) : sims[j] <= sims[ord[i]]}

\* The dict keys of unique_products, in insertion order.
Keys(unique) == {unique[i].key : i \in DOMAIN unique}

\* product_label = str(image_path_db).split('\\')[1], "unknown" on IndexError.
Unknown == <<"u","n","k","n","o","w","n">>

\* The label taken from the name of the parent directory, either separator.
ProductLabelOfParent(path) ==
    LET parts == SplitAll([i \in DOMAIN path |-> IF path[i] = "/" THEN "\\" ELSE path[i]],
                          "\\")
    IN  IF Len(parts) >= 2 THEN parts[Len(parts) - 1] ELSE Unknown

\* str(image_path_db).split('\\')[1], "unknown" on IndexError.
ProductLabel(path) ==
    LET parts == SplitAll(path, "\\")
    IN  IF Len(parts) >= 2 THEN parts[2] ELSE Unknown

\* The dict stored for one candidate row whose product was found.
Match(product_label, similarity, path, db_product) ==
    [product_label |-> product_label,
     similarity |-> similarity,
     matching_image_path |-> path,
     product_id |-> db_product.id,
     url |-> db_product.url,
     article |-> db_product.article,
     bulb_type |-> db_product.bulb_type,
     dimensions |-> db_product.dimensions,
     image_url |-> get_public_url_by_path(path)]

\* The loop condition that lets one candidate too many through.
WalkFullOffByOne(unique, top_k) == Len(unique) > top_k

\* if len(unique_products) >= top_k: break
WalkFull(unique, top_k) == Len(unique) >= top_k

\* The body of the loop for candidate row idx: unique_products afterwards.
\* lookupFails holds the rows whose product lookup raises.
VisitCandidate(unique, idx, cache, sims, store, lookupFails) ==
    LET product_id_db == cache.labels[idx]
        image_path_db == cache.paths[idx]
        product_label == ProductLabel(image_path_db)
        pieces        == SplitOnce(product_label, "_")
        found         == get_product_by_product_id_and_article(pieces[2], pieces[1], store)
    IN  IF product_id_db \in Keys(unique) THEN unique
        ELSE IF product_label = Unknown THEN unique
        ELSE IF ~Contains(product_label, "_") THEN unique
        ELSE IF idx \in lookupFails THEN unique
        ELSE IF found = <<>> THEN unique
        ELSE Append(unique, [key |-> product_id_db,
                             match |-> Match(product_label, sims[idx],
                                             image_path_db, found[1])])

\* A walk that breaks at a candidate it cannot resolve instead of going on.
RECURSIVE WalkAbortsOnSkip(_, _, _, _, _, _, _, _)
WalkAbortsOnSkip(ord, i, unique, cache, sims, store, top_k, lookupFails) ==
    IF i > Len(ord) \/ WalkFull(unique, top_k)
    THEN [unique |-> unique, steps |-> i - 1]
    ELSE LET next == VisitCandidate(unique, ord[i], cache, sims, store, lookupFails)
         IN  IF next = unique /\ cache.labels[ord[i]] \notin Keys(unique)
             THEN [unique |-> unique, steps |-> i]
             ELSE WalkAbortsOnSkip(ord, i + 1, next, cache, sims, store, top_k,
                                   lookupFails)

\* for idx in top_indices: ... from position i on.  steps counts the
\* candidates the loop body ran for.
RECURSIVE Walk(_, _, _, _, _, _, _, _)
Walk(ord, i, unique, cache, sims, store, top_k, lookupFails) ==
    IF i > Len(ord) \/ WalkFull(unique, top_k)
    THEN [unique |-> unique, steps |-> i - 1]
    ELSE Walk(ord, i + 1,
              VisitCandidate(unique, ord[i], cache, sims, store, lookupFails),
              cache, sims, store, top_k, lookupFails)

RECURSIVE Values(_)
\* list(unique_products.values())
Values(unique) ==
    IF unique = <<>> THEN <<>> ELSE <<Head(unique).match>> \o Values(Tail(unique))

(***************************************************************************)
(* What the surroundings do during one call: which database operations     *)
(* fail and whether the embedding model raises.                            *)
(***************************************************************************)
Healthy ==
    [initFails |-> FALSE, countFails |-> FALSE, loadFails |-> FALSE,
     lookupFails |-> {}, modelFails |-> FALSE]

AllRows == 1..MaxFeatures

Envs ==
    {Healthy,
     [Healthy EXCEPT !.initFails = TRUE],
     [Healthy EXCEPT !.countFails = TRUE],
     [Healthy EXCEPT !.loadFails = TRUE, !.lookupFails = AllRows],
     [Healthy EXCEPT !.modelFails = TRUE]}
    \cup {[Healthy EXCEPT !.lookupFails = S] : S \in (SUBSET AllRows) \ {{}}}

\* Uploaded query images: whether PIL can decode the file, and the
\* embedding the model computes for it.
Images ==
    {[decodable |-> TRUE, vec |-> <<1, 0>>],
     [decodable |-> TRUE, vec |-> <<0, 0>>],
     [decodable |-> FALSE, vec |-> <<0, 0>>]}

\* FeatureExtractor.extract_single_image_features: the embedding, or the
\* re-raised exception.
extract_single_image_features(image, modelFails) ==
    IF ~image.decodable THEN [ok |-> FALSE, vec |-> <<0, 0>>, error |-> "decode"]
    ELSE IF modelFails THEN [ok |-> FALSE, vec |-> <<0, 0>>, error |-> "inference"]
    ELSE [ok |-> TRUE, vec |-> image.vec, error |-> "none"]

\* What one predict_image call did.  returns is "list" when the caller got
\* a list back and "raise" when an exception reached the caller; error is
\* the exception the outer handler swallowed, if any; pool is the number of
\* candidates, steps the number the loop body ran for, lastIdx the row of
\* the last of them.
Outcome(result, returns, error, cache, via, pool, steps, lastIdx) ==
    [result |-> result, returns |-> returns, error |-> error, cache |-> cache,
     via |-> via, pool |-> pool, steps |-> steps, lastIdx |-> lastIdx]

\* A test of the query norm that never finds it zero.
QueryNormNeverZero(vec) == FALSE

\* q_norm = np.linalg.norm(q); if q_norm == 0
QueryNormIsZero(vec) == Norm(vec) = 0

\* SearchService.predict_image: every outcome the call can have.
predict_image(cache, table, image, store, top_k, env) ==
    LET feature_count == get_feature_count(table, env.countFails)
        extracted     == extract_single_image_features(image, env.modelFails)
        loaded        == load_feature_cache(cache, table, env.loadFails)
        q             == NormalizeRow(extracted.vec)
        sims          == Similarities(loaded.matrix, q)
        pool_size     == PoolSize(Len(loaded.matrix), top_k)
    IN  IF feature_count = 0
        THEN {Outcome(<<>>, "list", "none", cache, "no_features", 0, 0, 0)}
        ELSE IF ~extracted.ok
        THEN {Outcome(<<>>, "list", extracted.error, cache, "extract_error", 0, 0, 0)}
        ELSE IF loaded.matrix = <<>>
        THEN {Outcome(<<>>, "list", "none", loaded, "empty_cache", 0, 0, 0)}
        ELSE IF QueryNormIsZero(extracted.vec)
        THEN {Outcome(<<>>, "list", "none", loaded, "zero_query", 0, 0, 0)}
        ELSE {LET w == Walk(ord, 1, <<>>, loaded, sims, store, top_k, env.lookupFails)
              IN  Outcome(Values(w.unique), "list", "none", loaded, "walked",
                          Len(ord), w.steps,
                          IF w.steps = 0 THEN 0 ELSE ord[w.steps])
              : ord \in TopIndexOrders(sims, pool_size)}

\* SearchService.search_by_picture_and_display_results: FileNotFoundError
\* when the file is missing, else predict_image's list.
search_by_picture_and_display_results(exists, cache, table, image, store, top_k, env) ==
    IF ~exists
    THEN {Outcome(<<>>, "raise", "FileNotFoundError", cache, "no_file", 0, 0, 0)}
    ELSE predict_image(cache, table, image, store, top_k, env)

(***************************************************************************)
(* State                                                                   *)
(***************************************************************************)
VARIABLES
    features,     \* the image_features table, in primary-key order
    lastStore,    \* the latest store_features call and how it ended
    worker,       \* the worker process: _searcher and its feature cache
    fileExists,   \* whether the uploaded file is in /app/tmp_shared
    task,         \* the picture_search task of the request being served
    call,         \* the latest predict_image call of that task
    response,     \* what /search/by_picture answered
    specCall,     \* the latest get_product_by_specifications call
    polled,       \* what /management/status/{task_id} answered last
    selection,    \* the latest candidate pool computed on its own
    race,         \* predict_image calls running as threads of one process
    auth          \* issued JWTs, the token_blocklist table, the latest auth call

vars == <<features, lastStore, worker, fileExists, task, call, response, specCall,
          polled, selection, race, auth>>

NoStore == [made |-> FALSE, product_id |-> 0, image_path |-> <<>>, vec |-> <<0, 0>>,
            existed |-> FALSE, raised |-> FALSE]

NoImage == [decodable |-> FALSE, vec |-> <<0, 0>>]

NoTask == [phase |-> "idle", image |-> NoImage, store |-> StoreAll, top_k |-> 0,
           retries |-> 0, result |-> [kind |-> "none", items |-> <<>>]]

\* dbFailed: a database operation raised during the call.
DbFailed(env, cache) ==
    \/ env.countFails
    \/ env.loadFails
    \/ \E i \in env.lookupFails : i \in DOMAIN cache.matrix

\* The rows of the snapshot whose product lookup raises during the call.
LookupFailed(env, out) ==
    IF out.via = "walked" THEN env.lookupFails \cap DOMAIN out.cache.matrix ELSE {}

NoCall == [made |-> FALSE, storeRows |-> 0, dbFailed |-> FALSE, lookupFailed |-> {},
           countFailed |-> FALSE,
           out |-> Outcome(<<>>, "list", "none", NoCache, "none", 0, 0, 0)]

NoResponse == [status |-> 0, items_found |-> 0, predictions |-> <<>>]

\* sent: a spec_search task was dispatched; retries: request.retries;
\* failed: the task ended with the failure dict.
NoSpecCall == [made |-> FALSE, details |-> Null, bulb_type |-> Null,
               dimensions |-> Null, category |-> Null, store |-> StoreAll,
               result |-> <<>>, sent |-> FALSE, retries |-> 0, failed |-> FALSE]

NoSelection == [kind |-> "none", rows |-> 0, top_k |-> 0, pool_size |-> 0,
                sims |-> <<>>, order |-> <<>>]

NoPoll == [status |-> "none", items_found |-> 0,
           predictions |-> [kind |-> "none", items |-> <<>>]]

\* An attribute of SearchService: None until it is assigned.
None == [set |-> FALSE, val |-> <<>>]

Some(v) == [set |-> TRUE, val |-> v]

Threads == {1, 2}

\* The four cache attributes after __init__ and no predict_image running.
NoRace == [svc |-> [feature_cache |-> None, matrix |-> None, labels |-> None,
                    paths |-> None],
           th |-> [t \in Threads |->
                     [pc |-> "idle", db |-> EmptyFeatures, m |-> None,
                      l |-> None, p |-> None]]]

(***************************************************************************)
(* JWT authentication: shared/auth.py and main_api/routers/auth.py         *)
(***************************************************************************)

\* Largest number of tokens issued.
MaxJti == 3

\* Rows of the users table, all active.
Users == {1, 2}

\* A bearer string that is not a JWT signed with the secret.
Garbage == [jti |-> 0, user_id |-> 0, type |-> "garbage"]

\* tokens: the JWTs issued so far, tokens[j] carrying jti j; expired: the
\* jtis whose exp has passed; blocklist: the jtis in token_blocklist; last:
\* the latest call, with whether its token was blacklisted when it began
\* and what verify_token did inside it.
NoAuth == [tokens |-> <<>>, expired |-> {}, blocklist |-> {},
           last |-> [op |-> "none", jti |-> 0, blockedBefore |-> FALSE,
                     verify |-> "none", outcome |-> "none"]]

\* A verify_token that does not consult token_blocklist.
verify_token_unchecked(token, a) ==
    IF token = Garbage THEN "401 invalid"
    ELSE IF token.jti \in a.expired THEN "401 expired"
    ELSE "payload"

\* verify_token: the payload, or the HTTPException it raises.
verify_token(token, a) ==
    IF token = Garbage THEN "401 invalid"
    ELSE IF token.jti \in a.expired THEN "401 expired"
    ELSE IF token.jti \in a.blocklist THEN "401 revoked"
    ELSE "payload"

\* blacklist_token: expiry is not verified; False for an undecodable
\* token, True without a second row when the jti is already listed.
blacklist_token(token, a) ==
    IF token = Garbage THEN [ok |-> FALSE, blocklist |-> a.blocklist]
    ELSE [ok |-> TRUE, blocklist |-> a.blocklist \cup {token.jti}]

\* get_current_user: the user, or the 401 raised.
get_current_user(token, a) ==
    IF verify_token(token, a) # "payload" THEN verify_token(token, a)
    ELSE IF token.type # "access" THEN "401 type"
    ELSE IF token.user_id \notin Users THEN "401 invalid"
    ELSE "user"

\* refresh_access_token: whether a new access token is returned (None
\* otherwise; every exception is turned into None).
refresh_access_token(token, a) ==
    /\ verify_token(token, a) = "payload"
    /\ token.type = "refresh"
    /\ token.user_id \in Users

Init ==
    /\ features = <<>>
    /\ lastStore = NoStore
    /\ worker = [phase |-> "starting", searcher |-> FALSE, cache |-> NoCache]
    /\ fileExists = FALSE
    /\ task = NoTask
    /\ call = NoCall
    /\ response = NoResponse
    /\ specCall = NoSpecCall
    /\ polled = NoPoll
    /\ selection = NoSelection
    /\ race = NoRace
    /\ auth = NoAuth

(***************************************************************************)
(* Ingestion                                                               *)
(***************************************************************************)

\* One store_features call, its outcome recorded.
StoreFeatures ==
    \E product_id \in FeatureLabels, image_path \in FeaturePaths, vec \in FeatureVecs :
        LET r == store_features(features, product_id, image_path, vec)
        IN  /\ Len(r.table) <= MaxFeatures
            /\ features' = r.table
            /\ lastStore' = [made |-> TRUE, product_id |-> product_id,
                             image_path |-> image_path, vec |-> vec,
                             existed |-> HasKey(features, product_id, image_path),
                             raised |-> r.raised]
            /\ UNCHANGED <<worker, fileExists, task, call, response, specCall, polled, selection, race, auth>>

\* The embedding the extractor computes for the catalog image at a path.
EmbeddingOf(image_path) ==
    IF image_path \in {PathA1a, PathNoSep} THEN <<3, 4>> ELSE <<4, 3>>

\* store_features run by the out-of-band ingestion process while the search
\* worker is being observed: it stores the embedding of the image at the
\* path, and only the table is shared with the worker.
Ingest ==
    \E product_id \in FeatureLabels, image_path \in FeaturePaths :
        LET r == store_features(features, product_id, image_path, EmbeddingOf(image_path))
        IN  /\ Len(r.table) <= MaxFeatures
            /\ ~r.raised
            /\ features' = r.table
            /\ UNCHANGED <<lastStore, worker, fileExists, task, call, response, specCall, polled, selection, race, auth>>

\* The tables of exactly n rows that successful store_features calls build.
RECURSIVE TablesOfLen(_)
TablesOfLen(n) ==
    IF n = 0 THEN {<<>>}
    ELSE {store_features(t, product_id, image_path, vec).table :
              t \in {u \in TablesOfLen(n - 1) : TRUE},
              product_id \in FeatureLabels, image_path \in FeaturePaths,
              vec \in FeatureVecs} \ TablesOfLen(n - 1)

Tables == UNION {TablesOfLen(n) : n \in 0..MaxFeatures}

(***************************************************************************)
(* The worker process: warmup_worker, get_searcher, picture_search         *)
(***************************************************************************)

\* warmup_worker with the signal delivered: get_searcher() then
\* _load_feature_cache(); any exception is swallowed.
Warmup ==
    /\ worker.phase = "starting"
    /\ \E env \in {Healthy, [Healthy EXCEPT !.initFails = TRUE],
                   [Healthy EXCEPT !.loadFails = TRUE]} :
         worker' = IF env.initFails
                   THEN [worker EXCEPT !.phase = "running"]
                   ELSE [phase |-> "running", searcher |-> TRUE,
                         cache |-> load_feature_cache(worker.cache, features, env.loadFails)]
    /\ UNCHANGED <<features, lastStore, fileExists, task, call, response, specCall, polled, selection, race, auth>>

\* The process starts serving without the warmup having run.
StartCold ==
    /\ worker.phase = "starting"
    /\ worker' = [worker EXCEPT !.phase = "running"]
    /\ UNCHANGED <<features, lastStore, fileExists, task, call, response, specCall, polled, selection, race, auth>>

MaxRetries == 3

\* An except branch that lets the task retry once more.
AfterExceptionOneMore(t) ==
    IF t.retries <= MaxRetries
    THEN [t EXCEPT !.retries = t.retries + 1]
    ELSE [t EXCEPT !.phase = "done", !.result = [kind |-> "failed", items |-> <<>>]]

\* The except branch of picture_search: the file is removed, then the task
\* is retried or ends with the failure dict.
AfterException(t) ==
    IF t.retries < MaxRetries
    THEN [t EXCEPT !.retries = t.retries + 1]
    ELSE [t EXCEPT !.phase = "done", !.result = [kind |-> "failed", items |-> <<>>]]

\* A task result that reports an empty list as a failure.
TaskResultEmptyFails(results) ==
    IF results = <<>> THEN [kind |-> "failed", items |-> <<>>]
    ELSE [kind |-> "list", items |-> results]

\* return results if results else []
TaskResult(results) == [kind |-> "list", items |-> results]

\* A raising attempt whose except branch leaves the uploaded file in place.
AttemptRaisesKeepsFile ==
    /\ worker.phase = "running"
    /\ task.phase = "queued"
    /\ \/ ~fileExists
       \/ ~worker.searcher
    /\ task' = AfterException(task)
    /\ UNCHANGED <<features, lastStore, worker, fileExists, call, response, specCall, polled, selection, race, auth>>

\* One attempt of picture_search that raises before predict_image is reached:
\* the file is gone, or SearchService() cannot be constructed.
AttemptRaises ==
    /\ worker.phase = "running"
    /\ task.phase = "queued"
    /\ \/ ~fileExists
       \/ ~worker.searcher
    /\ fileExists' = FALSE
    /\ task' = AfterException(task)
    /\ UNCHANGED <<features, lastStore, worker, call, response, specCall, polled, selection, race, auth>>

\* One attempt of picture_search that gets through to the search.
AttemptSearches ==
    /\ worker.phase = "running"
    /\ task.phase = "queued"
    /\ fileExists
    /\ \E env \in Envs :
         /\ worker.searcher \/ ~env.initFails
         /\ \E out \in search_by_picture_and_display_results(
                           fileExists, worker.cache, features,
                           task.image, task.store, task.top_k, env) :
              /\ worker' = [phase |-> "running", searcher |-> TRUE, cache |-> out.cache]
              /\ call' = [made |-> TRUE, storeRows |-> Len(features),
                          dbFailed |-> DbFailed(env, out.cache),
                          lookupFailed |-> LookupFailed(env, out),
                          countFailed |-> env.countFails, out |-> out]
              /\ task' = [task EXCEPT !.phase = "done",
                                      !.result = TaskResult(out.result)]
    /\ fileExists' = FALSE
    /\ UNCHANGED <<features, lastStore, response, specCall, polled, selection, race, auth>>

(***************************************************************************)
(* The API: POST /search/by_picture with wait = true                       *)
(***************************************************************************)

\* The file is written to the shared directory and the task is sent.
Submit ==
    /\ task.phase = "idle"
    /\ \E image \in Images, store \in {StoreAll, StoreNovaLuce}, top_k \in 0..MaxTopK :
         task' = [phase |-> "queued", image |-> image, store |-> store,
                  top_k |-> top_k, retries |-> 0,
                  result |-> [kind |-> "none", items |-> <<>>]]
    /\ fileExists' = TRUE
    /\ UNCHANGED <<features, lastStore, worker, call, response, specCall, polled, selection, race, auth>>

\* PredictionResult declares these fields as str: None fails validation.
ValidPrediction(m) ==
    /\ m.image_url # NoUrl
    /\ ~IsNull(m.matching_image_path)
    /\ ~IsNull(m.url)
    /\ ~IsNull(m.bulb_type)
    /\ ~IsNull(m.dimensions)

ServerError == [status |-> 500, items_found |-> 0, predictions |-> <<>>]

\* What the endpoint makes of the task's result.
EndpointResponse(result) ==
    IF result.kind = "failed" THEN ServerError
    ELSE IF \A i \in DOMAIN result.items : ValidPrediction(result.items[i])
    THEN [status |-> 200, items_found |-> Len(result.items),
          predictions |-> result.items]
    ELSE ServerError

\* task.get returned within the 60 s.
Respond ==
    /\ task.phase = "done"
    /\ response.status = 0
    /\ response' = EndpointResponse(task.result)
    /\ UNCHANGED <<features, lastStore, worker, fileExists, task, call, specCall, polled, selection, race, auth>>

\* task.get(60) timed out: a retry is only run after countdown = 60.
RespondTimeout ==
    /\ task.phase = "queued"
    /\ task.retries > 0
    /\ response.status = 0
    /\ response' = ServerError
    /\ UNCHANGED <<features, lastStore, worker, fileExists, task, call, specCall, polled, selection, race, auth>>

\* The request is over: the response was sent and the task has ended, so
\* the next upload can be served.
Close ==
    /\ task.phase = "done"
    /\ response.status # 0
    /\ task' = NoTask
    /\ call' = NoCall
    /\ response' = NoResponse
    /\ UNCHANGED <<features, lastStore, worker, fileExists, specCall, polled, selection, race, auth>>

(***************************************************************************)
(* The API: GET /management/status/{task_id}                               *)
(***************************************************************************)

\* len(result) of the failure dict {'error': ..., 'status': 'failed'}.
FailureDictLen == 2

\* get_task_status.  The task is ready once picture_search has returned, and
\* a task that returned is successful for Celery whatever it returned: the
\* failure dict is a return value like the list.  A pending retry is not
\* ready.
get_task_status(t) ==
    IF t.phase = "done"
    THEN IF t.result.kind \in {"list", "failed"}
         THEN [status |-> "completed",
               items_found |-> IF t.result.kind = "list" THEN Len(t.result.items)
                               ELSE FailureDictLen,
               predictions |-> t.result]
         ELSE [status |-> "failed", items_found |-> 0, predictions |-> t.result]
    ELSE [status |-> "processing", items_found |-> 0,
          predictions |-> [kind |-> "none", items |-> <<>>]]

\* The client asks for the status of the task it sent.
GetTaskStatus ==
    /\ task.phase \in {"queued", "done"}
    /\ polled' = get_task_status(task)
    /\ UNCHANGED <<features, lastStore, worker, fileExists, task, call, response, specCall,
                   selection, race, auth>>

\* The tables the task-level specification starts from hold at most this
\* many rows.
MaxTaskRows == 1

\* A picture_search task has just been sent to a worker that started
\* without warmup.
InitTask ==
    /\ features \in UNION {TablesOfLen(n) : n \in 0..MaxTaskRows}
    /\ lastStore = NoStore
    /\ worker = [phase |-> "running", searcher |-> FALSE, cache |-> NoCache]
    /\ fileExists = TRUE
    /\ task \in [phase : {"queued"}, image : Images,
                 store : {StoreAll, StoreNovaLuce}, top_k : 0..MaxTopK,
                 retries : {0}, result : {[kind |-> "none", items |-> <<>>]}]
    /\ call = NoCall
    /\ response = NoResponse
    /\ specCall = NoSpecCall
    /\ polled = NoPoll
    /\ selection = NoSelection
    /\ race = NoRace
    /\ auth = NoAuth

NextTask ==
    \/ AttemptRaises
    \/ AttemptSearches
    \/ Respond
    \/ RespondTimeout
    \/ GetTaskStatus

(***************************************************************************)
(* The candidate pool of predict_image, step by step                       *)
(***************************************************************************)

MaxCachedRows == 110

MaxAskedK == 22

MaxSelectRows == 3

\* Similarity vectors of up to MaxSelectRows rows.
SimVectors ==
    UNION {[1..n -> {0, 15, 20, SimOne}] : n \in 1..MaxSelectRows}

\* pool_size = min(len(similarities), max(100, top_k * 5)) for a cache of
\* rows rows.
ChoosePoolSize ==
    /\ selection.kind = "none"
    /\ \E rows \in 0..MaxCachedRows, top_k \in 0..MaxAskedK :
         selection' = [kind |-> "size", rows |-> rows, top_k |-> top_k,
                       pool_size |-> PoolSize(rows, top_k),
                       sims |-> <<>>, order |-> <<>>]
    /\ UNCHANGED <<features, lastStore, worker, fileExists, task, call, response,
                   specCall, polled, race, auth>>

\* candidate_indices and top_indices for a pool_size that is at most the
\* number of similarities.
SelectCandidates ==
    /\ selection.kind = "none"
    /\ \E sims \in SimVectors :
         \E pool_size \in 0..Len(sims) :
            \E order \in TopIndexOrders(sims, pool_size) :
               selection' = [kind |-> "order", rows |-> Len(sims), top_k |-> 0,
                             pool_size |-> pool_size, sims |-> sims,
                             order |-> order]
    /\ UNCHANGED <<features, lastStore, worker, fileExists, task, call, response,
                   specCall, polled, race, auth>>

NextPool ==
    \/ ChoosePoolSize
    \/ SelectCandidates

(***************************************************************************)
(* Attribute search                                                        *)
(***************************************************************************)

DetailsInputs ==
    {Null, <<>>,
     <<"m","e","t","a","l">>,
     <<"g","l","a","s","s"," "," ","M","E","T","A","L">>,
     <<"g","l","a","s","s","\t","m","e","t","a","l">>,
     <<"w","o","o","d">>}

BulbTypeInputs == {Null, <<"l","e","d">>, <<"L","_","D">>, <<"E","2","7">>}

DimensionsInputs ==
    {Null,
     <<"W",":","1","0"," ","H",":","2","0">>,
     <<"W",":","1","0"," ","H",":","9","9">>,
     <<"h",":"," ","2","0">>,
     <<"1","0","x","2","0">>}

CategoryInputs ==
    {Null, <<"O","u","t","d","o","o","r">>, <<"o","u","t","_","d","o","o","r">>}

\* The arguments of a call that has not been made yet.
InitAttr ==
    /\ features = <<>>
    /\ lastStore = NoStore
    /\ worker = [phase |-> "starting", searcher |-> FALSE, cache |-> NoCache]
    /\ fileExists = FALSE
    /\ task = NoTask
    /\ call = NoCall
    /\ response = NoResponse
    /\ specCall \in [made : {FALSE}, details : DetailsInputs,
                     bulb_type : BulbTypeInputs, dimensions : DimensionsInputs,
                     category : CategoryInputs, store : {StoreAll, StoreNovaLuce},
                     result : {<<>>}, sent : {TRUE}, retries : {0},
                     failed : {FALSE}]
    /\ polled = NoPoll
    /\ selection = NoSelection
    /\ race = NoRace
    /\ auth = NoAuth

\* One get_product_by_specifications call.
SpecSearch ==
    /\ specCall.sent
    /\ ~specCall.made
    /\ ~specCall.failed
    /\ specCall' = [specCall EXCEPT
                       !.made = TRUE,
                       !.result = get_product_by_specifications(
                                      specCall.details, specCall.bulb_type,
                                      specCall.dimensions, specCall.category,
                                      specCall.store)]
    /\ UNCHANGED <<features, lastStore, worker, fileExists, task, call, response, polled, selection, race, auth>>

\* The except branch of spec_search: the task is retried or ends with the
\* failure dict.
SpecAfterException(c) ==
    IF c.retries < MaxRetries
    THEN [c EXCEPT !.retries = c.retries + 1]
    ELSE [c EXCEPT !.failed = TRUE]

\* One attempt of spec_search that raises: SearchService() cannot be built
\* or the query fails (get_product_by_specifications lets it through).
SpecAttemptRaises ==
    /\ specCall.sent
    /\ ~specCall.made
    /\ ~specCall.failed
    /\ specCall' = SpecAfterException(specCall)
    /\ UNCHANGED <<features, lastStore, worker, fileExists, task, call, response, polled, selection, race, auth>>

\* The attempts of the two search tasks, without the API.
NextRetry ==
    \/ AttemptRaises
    \/ AttemptSearches
    \/ SpecAttemptRaises
    \/ SpecSearch

(***************************************************************************)
(* The auth endpoints                                                      *)
(***************************************************************************)

\* The bearer strings a client can present.
Presentable == Range(auth.tokens) \cup {Garbage}

\* What a call on a token leaves in auth.last.
Called(op, token, outcome) ==
    [op |-> op, jti |-> token.jti, blockedBefore |-> token.jti \in auth.blocklist,
     verify |-> IF op \in {"logout", "login"} THEN "none" ELSE verify_token(token, auth),
     outcome |-> outcome]

\* POST /login with good credentials: create_tokens_for_user.
Login ==
    /\ Len(auth.tokens) + 2 <= MaxJti
    /\ \E u \in Users :
         LET n == Len(auth.tokens)
             access == [jti |-> n + 1, user_id |-> u, type |-> "access"]
         IN  auth' = [auth EXCEPT
                 !.tokens = @ \o <<access, [jti |-> n + 2, user_id |-> u, type |-> "refresh"]>>,
                 !.last = Called("login", access, "tokens")]
    /\ UNCHANGED <<features, lastStore, worker, fileExists, task, call, response, specCall, polled, selection, race>>

\* Time passes the exp of a token.
Expire ==
    /\ \E j \in DOMAIN auth.tokens : auth' = [auth EXCEPT !.expired = @ \cup {j}]
    /\ UNCHANGED <<features, lastStore, worker, fileExists, task, call, response, specCall, polled, selection, race>>

\* GET /validate (and every endpoint that depends on get_current_user).
Validate ==
    /\ \E token \in Presentable :
         auth' = [auth EXCEPT !.last = Called("validate", token, get_current_user(token, auth))]
    /\ UNCHANGED <<features, lastStore, worker, fileExists, task, call, response, specCall, polled, selection, race>>

\* POST /refresh: 401 when refresh_access_token returns None, else a new
\* access token for the same user.
Refresh ==
    /\ \E token \in Presentable :
         IF refresh_access_token(token, auth)
         THEN /\ Len(auth.tokens) < MaxJti
              /\ auth' = [auth EXCEPT
                     !.tokens = Append(@, [jti |-> Len(auth.tokens) + 1,
                                           user_id |-> token.user_id, type |-> "access"]),
                     !.last = Called("refresh", token, "token")]
         ELSE auth' = [auth EXCEPT !.last = Called("refresh", token, "401")]
    /\ UNCHANGED <<features, lastStore, worker, fileExists, task, call, response, specCall, polled, selection, race>>

\* POST /logout: blacklist the bearer token, 400 when that fails.
Logout ==
    /\ \E token \in Presentable :
         LET r == blacklist_token(token, auth)
         IN  auth' = [auth EXCEPT !.blocklist = r.blocklist,
                                  !.last = Called("logout", token,
                                                  IF r.ok THEN "200" ELSE "400")]
    /\ UNCHANGED <<features, lastStore, worker, fileExists, task, call, response, specCall, polled, selection, race>>

\* POST /revoke-token: get_current_user on the bearer token, then the
\* token in the body is blacklisted.
RevokeToken ==
    /\ \E token \in Presentable, refresh_token \in Presentable :
         LET r == blacklist_token(refresh_token, auth)
         IN  IF get_current_user(token, auth) # "user"
             THEN auth' = [auth EXCEPT !.last = Called("revoke", token,
                                                       get_current_user(token, auth))]
             ELSE auth' = [auth EXCEPT !.blocklist = r.blocklist,
                                       !.last = Called("revoke", token,
                                                       IF r.ok THEN "200" ELSE "400")]
    /\ UNCHANGED <<features, lastStore, worker, fileExists, task, call, response, specCall, polled, selection, race>>

NextAuth ==
    \/ Login
    \/ Expire
    \/ Validate
    \/ Refresh
    \/ Logout
    \/ RevokeToken

(***************************************************************************)
(* predict_image calls as threads of one process, statement by statement   *)
(***************************************************************************)

\* The two image_features rows written while the calls run.
RaceRows == {[product_id |-> 1, image_path |-> PathA1a],
             [product_id |-> 2, image_path |-> PathB2a]}

\* Thread t moves to pc with the remaining fields of its frame as given.
Goto(t, pc, frame) ==
    race' = [race EXCEPT !.th[t] = [frame EXCEPT !.pc = pc]]

\* Thread t assigns one attribute of the shared SearchService and moves on.
Assign(t, attr, value, pc) ==
    race' = [race EXCEPT !.svc[attr] = Some(value), !.th[t].pc = pc]

\* predict_image up to the load: the live count, [] when it is 0, then the
\* query embedding.
ThreadCount(t) ==
    /\ race.th[t].pc = "count"
    /\ Goto(t, IF get_feature_count(features, FALSE) = 0 THEN "done" ELSE "check",
            race.th[t])
    /\ UNCHANGED <<features, lastStore, worker, fileExists, task, call, response, specCall, polled, selection, auth>>

\* _load_feature_cache: if self._feature_cache is None.
ThreadCheck(t) ==
    /\ race.th[t].pc = "check"
    /\ Goto(t, IF race.svc.feature_cache.set THEN "read_matrix" ELSE "fetch",
            race.th[t])
    /\ UNCHANGED <<features, lastStore, worker, fileExists, task, call, response, specCall, polled, selection, auth>>

\* db_features = self.db_manager.get_all_features(), and the branch on
\* features.size.
ThreadFetch(t) ==
    /\ race.th[t].pc = "fetch"
    /\ \E dbFails \in BOOLEAN :
         LET db_features == get_all_features(features, dbFails)
         IN  Goto(t, IF db_features.features = <<>> THEN "empty_cache" ELSE "set_matrix",
                  [race.th[t] EXCEPT !.db = db_features])
    /\ UNCHANGED <<features, lastStore, worker, fileExists, task, call, response, specCall, polled, selection, auth>>

\* The four assignments of the empty branch, _feature_cache first.
ThreadAssignEmpty(t) ==
    /\ \/ /\ race.th[t].pc = "empty_cache"
          /\ Assign(t, "feature_cache", <<>>, "empty_matrix")
       \/ /\ race.th[t].pc = "empty_matrix"
          /\ Assign(t, "matrix", <<>>, "empty_labels")
       \/ /\ race.th[t].pc = "empty_labels"
          /\ Assign(t, "labels", <<>>, "empty_paths")
       \/ /\ race.th[t].pc = "empty_paths"
          /\ Assign(t, "paths", <<>>, "read_matrix")
    /\ UNCHANGED <<features, lastStore, worker, fileExists, task, call, response, specCall, polled, selection, auth>>

\* The four assignments after normalization, _feature_cache last.
ThreadAssign(t) ==
    /\ \/ /\ race.th[t].pc = "set_matrix"
          /\ Assign(t, "matrix", NormalizeRows(race.th[t].db.features), "set_labels")
       \/ /\ race.th[t].pc = "set_labels"
          /\ Assign(t, "labels", race.th[t].db.labels, "set_paths")
       \/ /\ race.th[t].pc = "set_paths"
          /\ Assign(t, "paths", race.th[t].db.paths, "set_cache")
       \/ /\ race.th[t].pc = "set_cache"
          /\ Assign(t, "feature_cache", race.th[t].db.features, "read_matrix")
    /\ UNCHANGED <<features, lastStore, worker, fileExists, task, call, response, specCall, polled, selection, auth>>

\* predict_image after the load: [] when the matrix is None or empty,
\* otherwise the similarities are computed from the matrix read here.
ThreadReadMatrix(t) ==
    /\ race.th[t].pc = "read_matrix"
    /\ Goto(t, IF ~race.svc.matrix.set \/ race.svc.matrix.val = <<>>
               THEN "done" ELSE "read_labels",
            [race.th[t] EXCEPT !.m = race.svc.matrix])
    /\ UNCHANGED <<features, lastStore, worker, fileExists, task, call, response, specCall, polled, selection, auth>>

\* The walk reads self._labels[idx], then self._paths[idx].
ThreadReadLists(t) ==
    /\ \/ /\ race.th[t].pc = "read_labels"
          /\ Goto(t, "read_paths", [race.th[t] EXCEPT !.l = race.svc.labels])
       \/ /\ race.th[t].pc = "read_paths"
          /\ Goto(t, "done", [race.th[t] EXCEPT !.p = race.svc.paths])
    /\ UNCHANGED <<features, lastStore, worker, fileExists, task, call, response, specCall, polled, selection, auth>>

\* The ingestion process commits one more row while the calls run.
RaceIngest ==
    /\ \E row \in RaceRows :
         LET r == store_features(features, row.product_id, row.image_path,
                                 EmbeddingOf(row.image_path))
         IN  /\ ~r.raised
             /\ features' = r.table
    /\ UNCHANGED <<lastStore, worker, fileExists, task, call, response, specCall, polled, selection, race, auth>>

NextRace ==
    \/ RaceIngest
    \/ \E t \in Threads :
         \/ ThreadCount(t)
         \/ ThreadCheck(t)
         \/ ThreadFetch(t)
         \/ ThreadAssignEmpty(t)
         \/ ThreadAssign(t)
         \/ ThreadReadMatrix(t)
         \/ ThreadReadLists(t)

\* Two picture searches start in a process whose SearchService has not
\* loaded its cache, the store holding no row or one.
InitRace ==
    /\ features \in {t \in Tables : /\ Len(t) <= 1
                                    /\ \A i \in DOMAIN t :
                                          /\ [product_id |-> t[i].product_id,
                                              image_path |-> t[i].image_path] \in RaceRows
                                          /\ t[i].features = EmbeddingOf(t[i].image_path)}
    /\ lastStore = NoStore
    /\ worker = [phase |-> "running", searcher |-> TRUE, cache |-> NoCache]
    /\ fileExists = FALSE
    /\ task = NoTask
    /\ call = NoCall
    /\ response = NoResponse
    /\ specCall = NoSpecCall
    /\ polled = NoPoll
    /\ selection = NoSelection
    /\ auth = NoAuth
    /\ race = [NoRace EXCEPT !.th = [t \in Threads |-> [NoRace.th[t] EXCEPT !.pc = "count"]]]

\* A worker started without warmup that is about to run the first attempt
\* of a picture_search, over any stored table and any request.
InitPredict ==
    /\ features \in Tables
    /\ lastStore = NoStore
    /\ worker = [phase |-> "running", searcher |-> FALSE, cache |-> NoCache]
    /\ fileExists = TRUE
    /\ task \in [phase : {"queued"}, image : Images,
                 store : {StoreAll, StoreNovaLuce}, top_k : 0..MaxTopK,
                 retries : {0}, result : {[kind |-> "none", items |-> <<>>]}]
    /\ call = NoCall
    /\ response = NoResponse
    /\ specCall = NoSpecCall
    /\ polled = NoPoll
    /\ selection = NoSelection
    /\ race = NoRace
    /\ auth = NoAuth

\* The table t with the embeddings of the rows in badF and the paths of the
\* rows in badP stored in a form the load cannot decode.
Damaged(t, badF, badP) ==
    [i \in DOMAIN t |->
        [t[i] EXCEPT !.features = IF i \in badF THEN CorruptBlob ELSE @,
                     !.image_path = IF i \in badP THEN UndecodablePath ELSE @]]

\* The image_features tables a load can meet: the rows store_features
\* wrote, some of them damaged, the unique index still holding.
StoredTables ==
    {d \in {Damaged(t, badF, badP) :
               t \in Tables, badF \in SUBSET (1..MaxFeatures),
               badP \in SUBSET (1..MaxFeatures)} :
        \A i, j \in DOMAIN d :
            (d[i].product_id = d[j].product_id /\ d[i].image_path = d[j].image_path)
                => i = j}

\* A worker process about to run its warmup over any stored table.
InitLoad ==
    /\ features \in StoredTables
    /\ lastStore = NoStore
    /\ worker = [phase |-> "starting", searcher |-> FALSE, cache |-> NoCache]
    /\ fileExists = FALSE
    /\ task = NoTask
    /\ call = NoCall
    /\ response = NoResponse
    /\ specCall = NoSpecCall
    /\ polled = NoPoll
    /\ selection = NoSelection
    /\ race = NoRace
    /\ auth = NoAuth

\* Stored paths whose label segment has no, one or two underscores.
LabelPaths == FeaturePaths \cup {PathC3xa, PathPosix, PathParent}

\* The first attempt of a picture_search over a table of one row, the
\* row's path drawn from LabelPaths.
InitLabel ==
    /\ features \in {store_features(<<>>, product_id, image_path, vec).table :
                        product_id \in FeatureLabels, image_path \in LabelPaths,
                        vec \in FeatureVecs}
    /\ lastStore = NoStore
    /\ worker = [phase |-> "running", searcher |-> FALSE, cache |-> NoCache]
    /\ fileExists = TRUE
    /\ task \in [phase : {"queued"}, image : Images,
                 store : {StoreAll, StoreNovaLuce}, top_k : 0..MaxTopK,
                 retries : {0}, result : {[kind |-> "none", items |-> <<>>]}]
    /\ call = NoCall
    /\ response = NoResponse
    /\ specCall = NoSpecCall
    /\ polled = NoPoll
    /\ selection = NoSelection
    /\ race = NoRace
    /\ auth = NoAuth

(***************************************************************************)
(* Specifications                                                          *)
(***************************************************************************)

Next ==
    \/ Ingest
    \/ Warmup
    \/ StartCold
    \/ Submit
    \/ AttemptRaises
    \/ AttemptSearches
    \/ Respond
    \/ RespondTimeout
    \/ Close

\* The search worker with its API, and ingestion going on beside it.
Spec == Init /\ [][Next]_vars

\* One visual search over any feature table.
SpecPredict == InitPredict /\ [][AttemptSearches]_vars

\* One cache load over any stored table.
SpecLoad == InitLoad /\ [][Warmup]_vars

\* One picture_search task from dispatch to its reports.
SpecTask == InitTask /\ [][NextTask]_vars

\* The candidate pool alone.
SpecPool == Init /\ [][NextPool]_vars

\* One visual search over a single stored row, for the label derivation.
SpecLabel == InitLabel /\ [][AttemptSearches]_vars

\* One search task of either kind, from its first attempt to its end.
SpecRetry == (InitTask \/ InitAttr) /\ [][NextRetry]_vars

\* Two concurrent predict_image calls and the ingestion process.
SpecRace == InitRace /\ [][NextRace]_vars

\* The auth endpoints alone.
SpecAuth == Init /\ [][NextAuth]_vars

\* Ingestion alone.
SpecIngest == Init /\ [][StoreFeatures]_vars

\* Attribute search alone.
SpecAttr == InitAttr /\ [][SpecSearch]_vars

(***************************************************************************)
(* Properties                                                              *)
(***************************************************************************)

\* The matches the latest predict_image call returned.
Returned == call.out.result

\* The product a stored path resolves to under a store filter: its id, or
\* 0 when the label is malformed or no product is found.
ResolvedId(path, store) ==
    LET label  == ProductLabel(path)
        pieces == SplitOnce(label, "_")
    IN  IF label = Unknown \/ ~Contains(label, "_") THEN 0
        ELSE LET found == get_product_by_product_id_and_article(pieces[2], pieces[1], store)
             IN  IF found = <<>> THEN 0 ELSE found[1].id

\* C1: no two matches returned by predict_image have the same resolved
\* product identity (product_id of the match), also when feature rows with
\* different stored labels resolve to the same product.
C1_NoDuplicateProducts ==
    call.made =>
        \A i, j \in DOMAIN Returned :
            i # j => Returned[i].product_id # Returned[j].product_id

C3_SortedDescending ==
    call.made =>
        \A i, j \in DOMAIN Returned :
            i < j => Returned[i].similarity >= Returned[j].similarity

\* Two matches of different similarity were returned.
C3_Witness ==
    /\ call.made
    /\ \E i, j \in DOMAIN Returned :
          i < j /\ Returned[i].similarity > Returned[j].similarity

\* C4: with no rows in image_features, predict_image returns [] without
\* raising, picture_search returns [], and the endpoint answers 200 with
\* items_found = 0 and predictions = [].
C4_EmptyStoreEmptyResult ==
    (call.made /\ call.storeRows = 0) =>
        /\ call.out.returns = "list"
        /\ Returned = <<>>
        /\ task.phase = "done"
        /\ task.result = [kind |-> "list", items |-> <<>>]
        /\ response.status # 0 =>
              response = [status |-> 200, items_found |-> 0, predictions |-> <<>>]

\* The endpoint answered a query made against an empty store.
C4_Witness ==
    /\ call.made
    /\ call.storeRows = 0
    /\ features = <<>>
    /\ response.status = 200

\* The products the rows of the cache resolve to under the store filter.
ResolvedProducts(cache, store) ==
    {ResolvedId(cache.paths[i], store) : i \in DOMAIN cache.paths} \ {0}

\* C5: malformed labels are skipped and, when the pool holds at least top_k
\* rows that resolve to distinct valid products, exactly top_k matches are
\* returned.
C5_TopKWhenEnoughValid ==
    ( /\ call.made
      /\ call.out.via = "walked"
      /\ ~call.dbFailed
      /\ call.out.pool = Len(call.out.cache.paths)
      /\ Cardinality(ResolvedProducts(call.out.cache, task.store)) >= task.top_k )
    => Len(Returned) = task.top_k

\* C6: store_features on a key that already has a record succeeds and
\* leaves exactly one record for the key, holding the new embedding.
C6_UpsertReplaces ==
    (lastStore.made /\ lastStore.existed) =>
        /\ ~lastStore.raised
        /\ \E i \in DOMAIN features :
              /\ features[i].product_id = lastStore.product_id
              /\ features[i].image_path = lastStore.image_path
              /\ features[i].features = lastStore.vec
              /\ \A j \in DOMAIN features :
                    ( /\ features[j].product_id = lastStore.product_id
                      /\ features[j].image_path = lastStore.image_path ) => j = i

\* C7: when the query image cannot be decoded or the model raises, the
\* caller of predict_image does not receive a result list.
C7_ExtractionFailureSurfaces ==
    (call.made /\ call.out.error \in {"decode", "inference"}) =>
        call.out.returns # "list"

\* C8: when a database operation of the search fails, the caller of
\* predict_image does not receive a result list.
C8_DatabaseFailureSurfaces ==
    (call.made /\ call.dbFailed) => call.out.returns # "list"

\* C11: after a cache load, also one that skipped records it could not
\* decode, labels, paths and the normalized matrix have the same length and
\* the three entries at every index come from one stored record.
C11_SnapshotAligned ==
    worker.cache.built =>
        LET c == worker.cache
        IN  /\ Len(c.labels) = Len(c.paths)
            /\ Len(c.paths) = Len(c.matrix)
            /\ \A i \in DOMAIN c.matrix :
                  \E r \in DOMAIN features :
                      /\ features[r].product_id = c.labels[i]
                      /\ features[r].image_path = c.paths[i]
                      /\ c.matrix[i] = NormalizeRow(features[r].features)

\* C12: once the first _load_feature_cache of a worker process has
\* completed, no warmup, predict_image or _load_feature_cache reads the store
\* again (reads stays 1) and matrix, labels and paths are never reassigned.
C12_LoadedOnce ==
    [][worker.cache.built =>
          /\ worker.cache.reads = 1
          /\ worker'.cache = worker.cache]_vars

\* A search that walked a snapshot older than the store: rows were ingested
\* after the load, and the call left the snapshot as it was.
C12_Witness ==
    /\ call.made
    /\ call.out.via = "walked"
    /\ call.storeRows > Len(call.out.cache.paths)
    /\ worker.cache = call.out.cache

\* The result lists the pending picture_search can get from predict_image
\* when the image_features table is table and nothing fails.
PendingResults(table) ==
    {o.result : o \in predict_image(worker.cache, table, task.image,
                                    task.store, task.top_k, Healthy)}

\* C13: rows ingested after the worker built its snapshot are not observed:
\* for the same query, catalog, store filter and top_k, predict_image
\* returns what it returned with any earlier table since the snapshot.
C13_IngestionNotObserved ==
    (worker.cache.built /\ task.phase = "queued") =>
        \A n \in Len(worker.cache.paths)..Len(features) :
            PendingResults(SubSeq(features, 1, n)) = PendingResults(features)

\* A query with matches is pending on a non-empty snapshot older than the
\* store.
C13_Witness ==
    /\ worker.cache.built
    /\ task.phase = "queued"
    /\ worker.cache.paths # <<>>
    /\ Len(features) > Len(worker.cache.paths)
    /\ <<>> \notin PendingResults(features)

\* C14: a picture_search task that ended with the failure dict after its
\* retries is reported as a failure: /search/by_picture answers 500 and
\* /management/status/{task_id} does not answer "completed".
C14_FailedTaskReportedFailed ==
    (task.phase = "done" /\ task.result.kind = "failed") =>
        /\ response.status # 0 => response.status = 500
        /\ polled.status # "completed"

\* The pool size the specification gives for n cached rows.
ExpectedPoolSize(n, top_k) ==
    IF n <= 100 \/ n <= 5 * top_k THEN n
    ELSE IF 5 * top_k > 100 THEN 5 * top_k ELSE 100

CallSims ==
    Similarities(call.out.cache.matrix, NormalizeRow(task.image.vec))

\* The rows of the latest call's snapshot that resolve to product id.
RowsOf(id) ==
    {r \in DOMAIN call.out.cache.paths :
        ResolvedId(call.out.cache.paths[r], task.store) = id}

\* C16: every match reports the similarity and path of the best-scoring pool
\* row that resolves to its product, no product is reported twice, and no
\* row is dropped as a duplicate of another product: when the walk ran out
\* of candidates, every product some row resolves to is in the result.
C16_FirstOccurrenceWins ==
    (call.made /\ call.out.via = "walked" /\ ~call.dbFailed) =>
        /\ \A i \in DOMAIN Returned :
              LET rows == RowsOf(Returned[i].product_id)
              IN  /\ \E r \in rows :
                        /\ call.out.cache.paths[r] = Returned[i].matching_image_path
                        /\ CallSims[r] = Returned[i].similarity
                  /\ \A r \in rows : CallSims[r] <= Returned[i].similarity
        /\ \A i, j \in DOMAIN Returned :
              i # j => Returned[i].product_id # Returned[j].product_id
        /\ Len(Returned) < task.top_k =>
              \A id \in ResolvedProducts(call.out.cache, task.store) :
                  \E i \in DOMAIN Returned : Returned[i].product_id = id

\* C17: a candidate whose lookup finds no product, whose product the store
\* filter excludes, or whose lookup raises is not in the result and does not
\* end the walk: every match comes from a row whose lookup succeeded under
\* the filter, and a result shorter than top_k means that every candidate was
\* visited and every resolvable row is in the result or shares its stored
\* label with a row that is.
C17_SkipAndContinue ==
    (call.made /\ call.out.via = "walked") =>
        LET cache == call.out.cache
            good  == {r \in DOMAIN cache.paths \ call.lookupFailed :
                         ResolvedId(cache.paths[r], task.store) # 0}
        IN  /\ \A i \in DOMAIN Returned :
                  \E r \in good :
                      /\ cache.paths[r] = Returned[i].matching_image_path
                      /\ CallSims[r] = Returned[i].similarity
                      /\ ResolvedId(cache.paths[r], task.store) = Returned[i].product_id
            /\ Len(Returned) < task.top_k =>
                  /\ call.out.steps = call.out.pool
                  /\ \A r \in good :
                        \E i \in DOMAIN Returned : \E q \in DOMAIN cache.paths :
                            /\ cache.paths[q] = Returned[i].matching_image_path
                            /\ cache.labels[q] = cache.labels[r]

\* A candidate that could not be resolved ranked above a returned match.
C17_Witness ==
    /\ call.made
    /\ call.out.via = "walked"
    /\ Returned # <<>>
    /\ \E r \in DOMAIN call.out.cache.paths :
          /\ \/ r \in call.lookupFailed
             \/ ResolvedId(call.out.cache.paths[r], task.store) = 0
          /\ CallSims[r] > Returned[1].similarity

\* C18: a match whose stored path has no ProductImages row does not fail
\* the visual query: predict_image and the task return the list, and the
\* endpoint answers 200 with it.
C18_MissingUrlAbsorbed ==
    ( /\ call.made
      /\ task.phase = "done"
      /\ \E i \in DOMAIN Returned : Returned[i].image_url = NoUrl )
    => /\ call.out.returns = "list"
       /\ task.result = [kind |-> "list", items |-> Returned]
       /\ response.status # 0 =>
             /\ response.status = 200
             /\ response.predictions = Returned

\* C19: when the query embedding has zero norm predict_image returns the
\* empty list at once: no candidate pool is built from similarities and no
\* candidate is visited, so no product or URL lookup is made.
C19_ZeroQueryReturnsEmpty ==
    ( /\ call.made
      /\ task.image.decodable
      /\ Norm(task.image.vec) = 0
      /\ call.out.error = "none" )
    => /\ call.out.returns = "list"
       /\ Returned = <<>>
       /\ call.out.pool = 0
       /\ call.out.steps = 0
       /\ call.out.via \in {"no_features", "empty_cache", "zero_query"}

\* A zero query met a snapshot with a row that would have matched.
C19_Witness ==
    /\ call.made
    /\ call.out.via = "zero_query"
    /\ task.top_k > 0
    /\ ResolvedProducts(call.out.cache, task.store) # {}
    /\ call.lookupFailed = {}

\* The position of the first underscore of a label that has one.
FirstUnderscore(label) ==
    CHOOSE k \in DOMAIN label :
        label[k] = "_" /\ \A j \in 1..(k - 1) : label[j] # "_"

\* The products with that productId and article that the filter admits.
ProductsNamed(product_id, article, store) ==
    {Products[i].id : i \in
        {j \in DOMAIN Products :
            /\ Products[j].product_id = product_id
            /\ Products[j].article = article
            /\ (store # StoreAll => Products[j].store = store)}}

\* C20: the label is split at its first underscore only: the article is the
\* text before it, the productId all the text after it, and the lookup is
\* made with this pair: every match is a product with that productId and
\* article, and a single stored row gives a match exactly when such a
\* product exists.
C20_SplitAtFirstUnderscore ==
    (call.made /\ call.out.via = "walked" /\ call.lookupFailed = {}) =>
        /\ \A i \in DOMAIN Returned :
              LET label == Returned[i].product_label
                  k     == FirstUnderscore(label)
              IN  /\ label = ProductLabel(Returned[i].matching_image_path)
                  /\ Returned[i].article = SubSeq(label, 1, k - 1)
                  /\ Returned[i].product_id \in
                        ProductsNamed(SubSeq(label, k + 1, Len(label)),
                                      SubSeq(label, 1, k - 1), task.store)
        /\ (Len(call.out.cache.paths) = 1 /\ task.top_k > 0) =>
              LET label == ProductLabel(call.out.cache.paths[1])
              IN  IF \E k \in DOMAIN label : label[k] = "_"
                  THEN LET k == FirstUnderscore(label)
                       IN  (Returned # <<>>) <=>
                               ProductsNamed(SubSeq(label, k + 1, Len(label)),
                                             SubSeq(label, 1, k - 1),
                                             task.store) # {}
                  ELSE Returned = <<>>

\* A match was found through a label with two underscores.
C20_Witness ==
    /\ call.made
    /\ Returned # <<>>
    /\ Returned[1].product_label = <<"C", "_", "3", "_", "x">>
    /\ Returned[1].product_id = 3

\* C21: picture_search and spec_search run at most 4 attempts (request
\* retries 0..3); a task ends with the failure dict only when the attempt
\* with retries = 3 raised; and the search service is called at most once
\* per task, the task ending with that call.
C21_RetriesBounded ==
    /\ task.retries <= 3
    /\ specCall.retries <= 3
    /\ (task.phase = "done" /\ task.result.kind = "failed") => task.retries = 3
    /\ specCall.failed => specCall.retries = 3
    /\ task.phase = "done" => task.result.kind \in {"list", "failed"}
    /\ call.made => (task.phase = "done" /\ task.result.kind = "list")
    /\ specCall.made => ~specCall.failed

\* A picture_search that failed on all four attempts.
C21_Witness ==
    /\ task.phase = "done"
    /\ task.result.kind = "failed"
    /\ task.retries = 3
    /\ ~call.made

\* The snapshots a load can build from the tables the race meets.
RaceSnapshots ==
    {get_all_features(t, FALSE) :
        t \in {u \in Tables : \A i \in DOMAIN u :
                  /\ [product_id |-> u[i].product_id,
                      image_path |-> u[i].image_path] \in RaceRows
                  /\ u[i].features = EmbeddingOf(u[i].image_path)}}

WarmCache(table) ==
    LET d == get_all_features(table, FALSE)
    IN  [built |-> TRUE, matrix |-> NormalizeRows(d.features), labels |-> d.labels,
         paths |-> d.paths, reads |-> 1]

C24_RetryNeverSucceeds ==
    task.retries > 0 =>
        /\ ~fileExists
        /\ ~call.made
        /\ task.phase = "done" =>
              /\ task.result = [kind |-> "failed", items |-> <<>>]
              /\ task.retries = MaxRetries

\* The file was uploaded, the first attempt raised because SearchService
\* could not be built, and the three retries found no file.
C24_Witness ==
    /\ task.phase = "done"
    /\ task.retries = MaxRetries
    /\ task.result.kind = "failed"
    /\ ~fileExists
    /\ ~worker.searcher

\* C25: once the process holds the empty cache state (its one load read
\* nothing, the store having failed or been empty), no step changes the
\* cache, and every predict_image call made from then on returns [].
C25_EmptyCacheIsKept ==
    [][(worker.cache.built /\ worker.cache.matrix = <<>>) =>
          /\ worker'.cache = worker.cache
          /\ (task.phase = "queued" /\ task'.phase = "done" /\ call'.made) =>
                call'.out.result = <<>>]_vars

\* A call in which nothing failed returned [] from the empty cache while
\* the store held rows.
C25_Witness ==
    /\ call.made
    /\ ~call.dbFailed
    /\ call.storeRows > 0
    /\ call.out.via = "empty_cache"
    /\ call.out.result = <<>>
    /\ worker.cache.built
    /\ worker.cache.reads = 1

\* C26: a predict_image call that finds a feature count of 0, the table
\* being empty or the count query failing, returns [] without running the
\* extraction and leaves the cache fields as they were, built or not.
C26_ZeroCountShortCircuits ==
    [][(task.phase = "queued" /\ task'.phase = "done" /\ call'.made
          /\ (call'.storeRows = 0 \/ call'.countFailed)) =>
            /\ call'.out.via = "no_features"
            /\ call'.out.result = <<>>
            /\ call'.out.error = "none"
            /\ worker'.cache = worker.cache]_vars

\* The count query failed in a process holding a non-empty snapshot, and
\* the call returned [].
C26_Witness ==
    /\ call.made
    /\ call.countFailed
    /\ call.storeRows > 0
    /\ call.out.via = "no_features"
    /\ call.out.result = <<>>
    /\ worker.cache.matrix # <<>>

\* The text between the first and the second backslash of a path (to the
\* end when there is no second one).
SecondSegment(path) ==
    LET k1 == IndexFrom(path, "\\", 1)
        k2 == IndexFrom(path, "\\", k1 + 1)
    IN  SubSeq(path, k1 + 1, IF k2 = 0 THEN Len(path) ELSE k2 - 1)

\* C27: every returned match is labelled with the second backslash segment
\* of its stored path, and a row whose path has no backslash, or whose
\* second segment has no underscore, yields no match.
C27_LabelIsSecondSegment ==
    call.made =>
        /\ \A i \in DOMAIN Returned :
              Returned[i].product_label = SecondSegment(Returned[i].matching_image_path)
        /\ (\A r \in DOMAIN features :
               \/ ~Contains(features[r].image_path, "\\")
               \/ ~Contains(SecondSegment(features[r].image_path), "_"))
             => Returned = <<>>

\* The only cached row has a forward-slash path under the directory of a
\* catalog product; the walk visited it and returned nothing.
C27_Witness ==
    /\ call.made
    /\ ~call.dbFailed
    /\ call.out.via = "walked"
    /\ call.out.steps = 1
    /\ features[1].image_path = PathPosix
    /\ task.store = StoreAll
    /\ task.top_k > 0
    /\ Returned = <<>>

\* Whether s holds a letter, a colon, at most one space and a digit in a row.
HasDimToken(s) ==
    \E i \in DOMAIN s :
        /\ s[i] \in UpperLetters \cup LowerLetters
        /\ i + 2 <= Len(s)
        /\ s[i + 1] = ":"
        /\ \/ s[i + 2] \in Digits
           \/ (s[i + 2] = " " /\ i + 3 <= Len(s) /\ s[i + 3] \in Digits)

\* C28: an attribute search whose dimensions string is non-empty but holds
\* no <letter>:<digits> token returns what the same search returns with
\* dimensions omitted.
C28_TokenlessDimensionsIgnored ==
    (specCall.made /\ Supplied(specCall.dimensions)
       /\ ~HasDimToken(specCall.dimensions)) =>
        specCall.result = get_product_by_specifications(
                              specCall.details, specCall.bulb_type, Null,
                              specCall.category, specCall.store)

\* "10x20" was searched for and products were returned.
C28_Witness ==
    /\ specCall.made
    /\ specCall.dimensions = <<"1","0","x","2","0">>
    /\ ~HasDimToken(specCall.dimensions)
    /\ Len(specCall.result) >= 2

\* C29: the image_url of every match of an attribute search is absent or
\* the URL of a product_images row of that same product.
C29_ImageUrlOfSameProduct ==
    specCall.made =>
        \A i \in DOMAIN specCall.result :
            \/ specCall.result[i].image_url = NoUrl
            \/ \E r \in DOMAIN ProductImages :
                  /\ ProductImages[r].product_id = specCall.result[i].product_id
                  /\ ProductImages[r].image_url = specCall.result[i].image_url

\* C30: no step removes a jti from token_blocklist, and every call that
\* presents a token already blacklisted when the call began is rejected:
\* verify_token raises 401, get_current_user authenticates nobody and
\* /refresh gets None.
C30_BlacklistedStaysRejected ==
    [][/\ auth.blocklist \subseteq auth'.blocklist
       /\ (auth'.last.blockedBefore
             /\ auth'.last.op \in {"validate", "refresh", "revoke"}) =>
            /\ auth'.last.verify \in {"401 revoked", "401 expired"}
            /\ auth'.last.outcome \in {"401", "401 revoked", "401 expired"}
            /\ auth'.tokens = auth.tokens]_vars

\* An unexpired refresh token that had bought a new access token was
\* blacklisted and then refused by /refresh because it is revoked.
C30_Witness ==
    /\ auth.last.op = "refresh"
    /\ auth.last.blockedBefore
    /\ auth.last.jti \in DOMAIN auth.tokens
    /\ auth.tokens[auth.last.jti].type = "refresh"
    /\ auth.last.jti \notin auth.expired
    /\ auth.last.verify = "401 revoked"
    /\ auth.last.outcome = "401"
    /\ Len(auth.tokens) > auth.last.jti

(***************************************************************************)
(* Attribute search as the specification words it: plain case-insensitive  *)
(* substrings.                                                             *)
(***************************************************************************)

\* needle occurs in hay, letters compared without case.
ContainsCI(hay, needle) ==
    /\ ~IsNull(hay)
    /\ \E i \in 1..(Len(hay) - Len(needle) + 1) :
          \A k \in 1..Len(needle) : Lower(hay[i + k - 1]) = Lower(needle[k])

AllTokensIn(hay, tokens) == \A k \in DOMAIN tokens : ContainsCI(hay, tokens[k])

\* The product ids of the matches of the latest attribute search.
SpecResultIds == {specCall.result[i].product_id : i \in DOMAIN specCall.result}

ProductById(id) == CHOOSE p \in Range(Products) : p.id = id

OnlyDimensions ==
    /\ ~Supplied(specCall.details)
    /\ ~Supplied(specCall.bulb_type)
    /\ ~Supplied(specCall.category)
    /\ specCall.store = StoreAll

\* C9: every dimension token found in the query must occur, without regard
\* to case, in the product's stored dimensions, else the product is left
\* out; against "W:10, H:20, D:5" the query "W:10 H:20" matches and
\* "W:10 H:99" does not.
C9_DimensionsAllTokens ==
    (specCall.made /\ Supplied(specCall.dimensions)) =>
        LET tokens == FindDimTokens(specCall.dimensions, 1)
        IN  /\ \A id \in SpecResultIds :
                  AllTokensIn(ProductById(id).dimensions, tokens)
            /\ OnlyDimensions =>
                  \A id \in ProductIds :
                      AllTokensIn(ProductById(id).dimensions, tokens)
                          => id \in SpecResultIds
            /\ ( /\ OnlyDimensions
                 /\ specCall.dimensions = <<"W",":","1","0"," ","H",":","2","0">> )
               => 1 \in SpecResultIds
            /\ specCall.dimensions = <<"W",":","1","0"," ","H",":","9","9">>
               => 1 \notin SpecResultIds

\* The query "W:10 H:99" left out the product with "W:10, H:20, D:5" and
\* returned the one with "w:10, h:99".
C9_Witness ==
    /\ specCall.made
    /\ specCall.dimensions = <<"W",":","1","0"," ","H",":","9","9">>
    /\ SpecResultIds = {2}

\* str.split(): the pieces between runs of whitespace.
RECURSIVE WhitespaceTokens(_)
WhitespaceTokens(s) ==
    LET t == LStrip(s)
        e == CHOOSE n \in 0..Len(t) :
                 /\ \A k \in 1..n : t[k] \notin Whitespace
                 /\ n < Len(t) => t[n + 1] \in Whitespace
    IN  IF t = <<>> THEN <<>>
        ELSE <<SubSeq(t, 1, e)>> \o WhitespaceTokens(SubSeq(t, e + 1, Len(t)))

\* Whether a product satisfies every supplied criterion, as worded.
SatisfiesCriteria(p, details, bulb_type, dimensions, category, store) ==
    /\ store # StoreAll => p.store = store
    /\ Supplied(bulb_type) => ContainsCI(p.bulb_type, bulb_type)
    /\ Supplied(dimensions) => AllTokensIn(p.dimensions, FindDimTokens(dimensions, 1))
    /\ Supplied(category) => ContainsCI(p.url, category)
    /\ Supplied(details) => AllTokensIn(p.material, WhitespaceTokens(details))

\* C10: attribute search returns exactly the products that satisfy every
\* supplied criterion, each once.
C10_ExactlyTheSatisfying ==
    specCall.made =>
        /\ SpecResultIds =
              {id \in ProductIds :
                  SatisfiesCriteria(ProductById(id), specCall.details,
                                    specCall.bulb_type, specCall.dimensions,
                                    specCall.category, specCall.store)}
        /\ Len(specCall.result) = Cardinality(SpecResultIds)

====
